---- MODULE Spec2Model ----
(***************************************************************************)
(* Model of places_core.py (Google Places -> WordPress helper functions)   *)
(* and of the two button handlers of app.py.                               *)
(*                                                                         *)
(* Encoding of Python values:                                              *)
(*   - None / a missing dict key of an integer or float field is None (-1);*)
(*     the real values of rating and userRatingCount are never negative.   *)
(*   - ratings are in tenths (45 is 4.5).                                  *)
(*   - None / a missing dict key of a string field is NoStr.               *)
(*   - text that the code transforms character by character is a sequence  *)
(*     of one-character strings; the Arabic letters are spelled in ASCII.  *)
(***************************************************************************)
EXTENDS Integers, Sequences, FiniteSets, TLC

VARIABLES
    pc,           \* position of the running call chain: "idle", about to run a
                  \* function body ("call_search", "call_draft", "call_hours"), at
                  \* the top of the enrichment loop ("loop"), or blocked on a
                  \* response ("search", "detail", "wp")
    caller,       \* who runs the current call chain: "app" or "direct"
    places,       \* make_items_from_places: the place references
    min_reviews,  \* make_items_from_places: the threshold
    idx,          \* make_items_from_places: position of the for loop (1-based)
    items,        \* make_items_from_places: the working list
    net,          \* requests issued since the current call chain started
    result,       \* how the last call chain ended, and its return value
    session,      \* st.session_state["items"]
    call,         \* the widget values or arguments the current call chain started with
    hours         \* pick_today_hours: its argument, the weekday and its return value

vars == <<pc, caller, places, min_reviews, idx, items, net, result, session, call, hours>>

\* ------------------------------------------------------------------ bounds
MaxPlaces == 3
MaxHits == 1
MaxDays == 8

\* ------------------------------------------------------------------ values
None == -1
NoStr == "<none>"

Truthy(v) == v # None /\ v # 0
TruthyStr(s) == s # NoStr /\ s # ""

\* x or 0
OrZero(v) == IF Truthy(v) THEN v ELSE 0

\* ------------------------------------------------------------------ tables
\* CITY_PRESETS: the keys of the table
CITY_PRESETS == {"riyadh", "jeddah", "dammam", "khobar", "makkah", "madinah",
                 "dubai", "abudhabi", "sharjah"}

\* city keys a caller may pass to places_search_text
CityInputs == {"riyadh", "RIYADH", "Dubai", "paris", ""}

\* str.lower() on the city keys above
Lower(s) ==
    CASE s = "RIYADH" -> "riyadh"
      [] s = "Dubai" -> "dubai"
      [] OTHER -> s

\* CITY_PRESETS.get(city_key.lower()) is truthy
PresetFound(city_key) == Lower(city_key) \in CITY_PRESETS

\* ------------------------------------------------------------------ inputs
\* a place reference of the search response, by its "id" and "placeId" keys:
\* with both keys, with placeId alone, and with neither (an empty id)
PlaceRefs == {[id |-> "a", placeId |-> "b"],
              [id |-> NoStr, placeId |-> "b"],
              [id |-> "", placeId |-> NoStr]}

RECURSIVE SeqsUpTo(_, _)
SeqsUpTo(S, n) ==
    IF n = 0 THEN {<<>>}
    ELSE LET shorter == SeqsUpTo(S, n - 1)
         IN  shorter \cup {Append(q, x) : q \in {r \in shorter : Len(r) = n - 1}, x \in S}

PlaceLists == SeqsUpTo(PlaceRefs, MaxPlaces)
SearchHits == SeqsUpTo(PlaceRefs, MaxHits)

\* a detail response: the two fields the filter and the sort read
Ratings == {None, 0, 45}
RatingCounts == {None, 80, 120}
DetailResponses == [rating : Ratings, userRatingCount : RatingCounts]

\* post ids a caller may pass to create_or_update_draft_post
PostIdValues == {-1, 0, 1, 7}

\* the slider of app.py: 0..2000 in steps of 50
MinReviews == {0, 100}

\* ------------------------------------------------------------------ requests
\* a request of the log: the endpoint, the rest of the URL's path, the "status" of
\* the JSON body (NoStr when the body has none), and the response once it is there
NoBody == [rating |-> None, userRatingCount |-> None]
Request(api, path, status) ==
    [api |-> api, path |-> path, status |-> status, resp |-> "pending", body |-> NoBody]

\* requests.post(PLACES_SEARCH_URL, ...)
SearchRequest == Request("places:searchText", <<>>, NoStr)
\* requests.get(PLACES_DETAILS_URL_TMPL.format(place_id=place_id), ...)
DetailRequest(pid) == Request("places", <<pid>>, NoStr)

\* the last request of the log is answered
Answered(log, resp, body) ==
    [log EXCEPT ![Len(log)] = [@ EXCEPT !.resp = resp, !.body = body]]

\* requests issued and not yet answered
Pending == {k \in 1..Len(net) : net[k].resp = "pending"}

\* how a call chain ended: the exception or message, or "ok" and the list returned;
\* code is the HTTP status of the WordPress response
NoResult == [kind |-> "none", items |-> <<>>, code |-> 0]
Raised(e) == [kind |-> e, items |-> <<>>, code |-> 0]
Returned(v) == [kind |-> "ok", items |-> v, code |-> 0]

\* post_id: Optional[int]
NoPostId == [given |-> FALSE, value |-> 0]
PostId(v) == [given |-> TRUE, value |-> v]

\* the arguments of the running call chain: the widget values of app.py at the
\* click, or the arguments of a core function called directly
NoCall == [chain |-> "none", api_key |-> "", city_key |-> "", base_url |-> <<>>,
           user |-> "", app_password |-> "", post_id |-> NoPostId]

\* st.session_state has no "items" key
NoSession == [held |-> FALSE, items |-> <<>>]

\* pick_today_hours: the argument, datetime.datetime.now().weekday(), and the
\* returned pair once done
NoHours == [weekday_desc |-> <<>>, today_idx |-> 0, done |-> FALSE,
            today |-> <<>>, full_week |-> <<>>]

\* ------------------------------------------------------------------ pick_today_hours
\* AR_WEEKDAYS, Monday first; each Arabic name is one opaque character here
AR_WEEKDAYS == <<"al-ithnayn", "ath-thulatha", "al-arbia", "al-khamis",
                 "al-jumua", "as-sabt", "al-ahad">>

\* s.strip(): blanks removed at both ends
RECURSIVE Lstrip(_)
Lstrip(s) == IF s # <<>> /\ Head(s) = " " THEN Lstrip(Tail(s)) ELSE s

RECURSIVE Rstrip(_)
Rstrip(s) == IF s # <<>> /\ s[Len(s)] = " " THEN Rstrip(SubSeq(s, 1, Len(s) - 1)) ELSE s

Strip(s) == Rstrip(Lstrip(s))

\* s.replace(old, new): every occurrence, left to right, without overlap
RECURSIVE Replace(_, _, _)
Replace(s, old, new) ==
    IF Len(s) < Len(old) THEN s
    ELSE IF SubSeq(s, 1, Len(old)) = old
         THEN new \o Replace(SubSeq(s, Len(old) + 1, Len(s)), old, new)
         ELSE <<Head(s)>> \o Replace(Tail(s), old, new)

\* the position of the first c in s, or 0
RECURSIVE Find(_, _, _)
Find(s, c, i) == IF i > Len(s) THEN 0 ELSE IF s[i] = c THEN i ELSE Find(s, c, i + 1)

\* normalize_time_string: what follows the first ":" (or the whole string),
\* stripped, AM/PM/am/pm as the Arabic sad/mim, "-" as an en dash
normalize_time_string(s) ==
    LET colon == Find(s, ":", 1)
        times == IF colon > 0 THEN Strip(SubSeq(s, colon + 1, Len(s))) ELSE Strip(s)
        t1 == Replace(times, <<"A", "M">>, <<"sad">>)
        t2 == Replace(t1, <<"P", "M">>, <<"mim">>)
        t3 == Replace(t2, <<"a", "m">>, <<"sad">>)
        t4 == Replace(t3, <<"p", "m">>, <<"mim">>)
    IN  Replace(t4, <<"-">>, <<"endash">>)

\* a variant that falls back to the last entry of the list
TodayLine_Last(weekday_desc, today_idx) ==
    IF today_idx < Len(weekday_desc) THEN weekday_desc[today_idx + 1]
    ELSE weekday_desc[Len(weekday_desc)]

\* line = weekday_desc[today_idx] if today_idx < len(weekday_desc) else weekday_desc[0]
TodayLine(weekday_desc, today_idx) ==
    IF today_idx < Len(weekday_desc) THEN weekday_desc[today_idx + 1] ELSE weekday_desc[1]

\* label = AR_WEEKDAYS[i if i < len(AR_WEEKDAYS) else 0], i counted from 0
WeekLabel(i) == AR_WEEKDAYS[IF i < Len(AR_WEEKDAYS) THEN i + 1 ELSE 1]

\* f"{label}: {times}"
Labelled(label, times) == <<label, ":", " ">> \o times

\* pick_today_hours(weekday_desc) on weekday today_idx (Monday is 0): the pair
\* (today's line, the lines of the week)
pick_today_hours(weekday_desc, today_idx) ==
    IF weekday_desc = <<>> THEN [today |-> <<"emdash">>, full_week |-> <<>>]
    ELSE [today |-> Labelled(AR_WEEKDAYS[today_idx + 1],
                             normalize_time_string(TodayLine(weekday_desc, today_idx))),
          full_week |-> [i \in 1..Len(weekday_desc) |->
                            Labelled(WeekLabel(i - 1), normalize_time_string(weekday_desc[i]))]]

\* the weekdayDescriptions lines of a detail response: "Mo: 9:30 AM - 5 pm" and
\* " Closed "
OpenLine == <<"M", "o", ":", " ", "9", ":", "3", "0", " ", "A", "M", " ", "-", " ", "5", " ", "p", "m">>
ClosedLine == <<" ", "C", "l", "o", "s", "e", "d", " ">>
RawLines == {OpenLine, ClosedLine}

\* pick_today_hours is called with any list of lines on any weekday
InitHours ==
    /\ pc = "call_hours"
    /\ caller = "direct"
    /\ places = <<>>
    /\ min_reviews = 0
    /\ idx = 1
    /\ items = <<>>
    /\ net = <<>>
    /\ result = NoResult
    /\ session = NoSession
    /\ call = [NoCall EXCEPT !.chain = "hours"]
    /\ \E wd \in SeqsUpTo(RawLines, MaxDays), t \in 0..6 :
        hours = [NoHours EXCEPT !.weekday_desc = wd, !.today_idx = t]

\* the call returns
PickTodayHours ==
    /\ pc = "call_hours"
    /\ LET r == pick_today_hours(hours.weekday_desc, hours.today_idx)
       IN  hours' = [hours EXCEPT !.done = TRUE, !.today = r.today, !.full_week = r.full_week]
    /\ pc' = "idle"
    /\ UNCHANGED <<caller, places, min_reviews, idx, items, net, result, session, call>>

NextHours == PickTodayHours

SpecHours == InitHours /\ [][NextHours]_vars

\* ------------------------------------------------------------------ make_items_from_places
\* a variant that reads the keys in the other order
PidOf_PlaceIdFirst(p) == IF TruthyStr(p.placeId) THEN p.placeId ELSE p.id

\* pid = p.get("id") or p.get("placeId")
PidOf(p) == IF TruthyStr(p.id) THEN p.id ELSE p.placeId

\* the item built from a detail response. The other keys of the dict (name,
\* address, phone, price_range, hours, ...) are copied or formatted from the
\* detail and read by neither the filter nor the sort. src is the position of the
\* item's place reference in the input list (a history field, not a key of the dict)
MakeItem(det, i) == [rating |-> det.rating, rating_count |-> det.userRatingCount, src |-> i]

\* a variant that lets an item without rating_count pass the filter
Keeps_AbsentPasses(it, mr) == it.rating_count = None \/ it.rating_count >= mr

\* a variant that compares strictly
Keeps_Strict(it, mr) == OrZero(it.rating_count) > mr

\* (it.get("rating_count") or 0) >= min_reviews
Keeps(it, mr) == OrZero(it.rating_count) >= mr

FilterItems(s, mr) == SelectSeq(s, LAMBDA it : Keeps(it, mr))

\* key=lambda x: ((x.get("rating") or 0), (x.get("rating_count") or 0))
KeyOf(it) == <<OrZero(it.rating), OrZero(it.rating_count)>>

KeyLess(a, b) == a[1] < b[1] \/ (a[1] = b[1] /\ a[2] < b[2])

\* a variant that sorts on the rating alone
GoesBefore_RatingOnly(x, e) == KeyOf(e)[1] < KeyOf(x)[1]

\* a variant that is not stable: a later x also passes the elements of its own key
GoesBefore_Unstable(x, e) == ~KeyLess(KeyOf(x), KeyOf(e))

\* x goes before e in the sorted list: list.sort(reverse=True) keeps equal keys in
\* their original order, so a later x passes only elements of a smaller key
GoesBefore(x, e) == KeyLess(KeyOf(e), KeyOf(x))

RECURSIVE InsertDesc(_, _)
InsertDesc(s, x) ==
    IF s = <<>> THEN <<x>>
    ELSE IF GoesBefore(x, Head(s)) THEN <<x>> \o s
    ELSE <<Head(s)>> \o InsertDesc(Tail(s), x)

RECURSIVE SortFrom(_, _)
SortFrom(acc, s) ==
    IF s = <<>> THEN acc ELSE SortFrom(InsertDesc(acc, Head(s)), Tail(s))

\* items.sort(key=..., reverse=True)
SortItems(s) == SortFrom(<<>>, s)

\* for p in places: ... if not pid: continue
LoopSkip ==
    /\ pc = "loop"
    /\ idx <= Len(places)
    /\ ~TruthyStr(PidOf(places[idx]))
    /\ idx' = idx + 1
    /\ UNCHANGED <<pc, caller, places, min_reviews, items, net, result, session, call, hours>>

\* det = place_details(api_key, pid): requests.get(url, ...)
DetailSend ==
    /\ pc = "loop"
    /\ idx <= Len(places)
    /\ TruthyStr(PidOf(places[idx]))
    /\ net' = Append(net, DetailRequest(PidOf(places[idx])))
    /\ pc' = "detail"
    /\ UNCHANGED <<caller, places, min_reviews, idx, items, result, session, call, hours>>

\* the response has status 200: the item is built and appended
DetailOk ==
    /\ pc = "detail"
    /\ \E det \in DetailResponses :
        /\ items' = Append(items, MakeItem(det, idx))
        /\ net' = Answered(net, "ok", det)
    /\ idx' = idx + 1
    /\ pc' = "loop"
    /\ UNCHANGED <<caller, places, min_reviews, result, session, call, hours>>

\* a variant that swallows the error and goes on with the next reference
DetailFail_Swallowed ==
    /\ pc = "detail"
    /\ net' = Answered(net, "error", NoBody)
    /\ idx' = idx + 1
    /\ pc' = "loop"
    /\ UNCHANGED <<caller, places, min_reviews, items, result, session, call, hours>>

\* a variant in which the caller keeps what was built before the failure
DetailFail_KeepsPartial ==
    /\ pc = "detail"
    /\ net' = Answered(net, "error", NoBody)
    /\ result' = Raised("RuntimeError")
    /\ session' = IF caller = "app" THEN [held |-> TRUE, items |-> items] ELSE session
    /\ pc' = "idle"
    /\ UNCHANGED <<caller, places, min_reviews, idx, items, call, hours>>

\* the response has another status (or requests.get itself raises): place_details
\* raises, make_items_from_places does not catch, app.py's handler catches and
\* reports with st.error
DetailFail ==
    /\ pc = "detail"
    /\ net' = Answered(net, "error", NoBody)
    /\ result' = Raised("RuntimeError")
    /\ pc' = "idle"
    /\ UNCHANGED <<caller, places, min_reviews, idx, items, session, call, hours>>

\* the loop is over: filter, sort, return; app.py stores the list in the session
EnrichReturn ==
    /\ pc = "loop"
    /\ idx > Len(places)
    /\ LET out == SortItems(FilterItems(items, min_reviews))
       IN  /\ result' = Returned(out)
           /\ session' = IF caller = "app" THEN [held |-> TRUE, items |-> out] ELSE session
    /\ pc' = "idle"
    /\ UNCHANGED <<caller, places, min_reviews, idx, items, net, call, hours>>

\* make_items_from_places(api_key, places, min_reviews) is called directly with
\* any list of place references and any threshold, and is at the top of its loop
InitEnrich ==
    /\ pc = "loop"
    /\ caller = "direct"
    /\ places \in PlaceLists
    /\ min_reviews \in MinReviews
    /\ idx = 1
    /\ items = <<>>
    /\ net = <<>>
    /\ result = NoResult
    /\ session = NoSession
    /\ call = [NoCall EXCEPT !.chain = "enrich"]
    /\ hours = NoHours

NextEnrich ==
    \/ LoopSkip
    \/ DetailSend
    \/ DetailOk
    \/ DetailFail
    \/ EnrichReturn

SpecEnrich == InitEnrich /\ [][NextEnrich]_vars

\* ------------------------------------------------------------------ places_search_text
\* a variant that sends the request before it looks the city up
SearchSend_Unchecked ==
    /\ pc = "call_search"
    /\ net' = <<SearchRequest>>
    /\ pc' = "search"
    /\ UNCHANGED <<caller, places, min_reviews, idx, items, result, session, call, hours>>

\* preset = CITY_PRESETS.get(city_key.lower()); if not preset: raise ValueError;
\* otherwise requests.post(PLACES_SEARCH_URL, ...)
SearchSend ==
    /\ pc = "call_search"
    /\ IF PresetFound(call.city_key)
       THEN /\ net' = <<SearchRequest>>
            /\ pc' = "search"
            /\ UNCHANGED result
       ELSE /\ result' = Raised("ValueError")
            /\ pc' = "idle"
            /\ UNCHANGED net
    /\ UNCHANGED <<caller, places, min_reviews, idx, items, session, call, hours>>

\* status 200: return data.get("places", []); app.py goes on with
\* make_items_from_places(google_api_key, places, min_reviews=min_reviews), which
\* does not read the city key any more
SearchOk ==
    /\ pc = "search"
    /\ \E hits \in SearchHits : places' = hits
    /\ net' = Answered(net, "ok", NoBody)
    /\ IF caller = "app"
       THEN pc' = "loop" /\ call' = [call EXCEPT !.city_key = ""] /\ UNCHANGED result
       ELSE pc' = "idle" /\ result' = Returned(<<>>) /\ UNCHANGED call
    /\ UNCHANGED <<caller, min_reviews, idx, items, session, hours>>

\* another status: raise RuntimeError
SearchFail ==
    /\ pc = "search"
    /\ net' = Answered(net, "error", NoBody)
    /\ result' = Raised("RuntimeError")
    /\ pc' = "idle"
    /\ UNCHANGED <<caller, places, min_reviews, idx, items, session, call, hours>>

\* places_search_text called directly with any city key
DirectSearch ==
    /\ pc = "idle"
    /\ \E city \in CityInputs : call' = [NoCall EXCEPT !.chain = "search", !.api_key = "k", !.city_key = city]
    /\ caller' = "direct"
    /\ pc' = "call_search"
    /\ places' = <<>>
    /\ min_reviews' = 0
    /\ idx' = 1
    /\ items' = <<>>
    /\ net' = <<>>
    /\ result' = NoResult
    /\ UNCHANGED <<session, hours>>

\* ------------------------------------------------------------------ create_or_update_draft_post
\* base_url.rstrip('/')
RECURSIVE RstripSlash(_)
RstripSlash(u) ==
    IF u # <<>> /\ u[Len(u)] = "/" THEN RstripSlash(SubSeq(u, 1, Len(u) - 1)) ELSE u

\* endpoint = f"{base_url.rstrip('/')}/wp-json/wp/v2/posts"
Endpoint(base_url) == RstripSlash(base_url) \o <<"/wp-json/wp/v2/posts">>

\* if post_id: url = f"{endpoint}/{post_id}" else the endpoint itself
DraftUrl(base_url, post_id) ==
    IF post_id.given /\ post_id.value # 0
    THEN Endpoint(base_url) \o <<"/", ToString(post_id.value)>>
    ELSE Endpoint(base_url)

\* payload = {"title": title, "content": content_html, "status": "draft"};
\* requests.post(url or endpoint, auth=auth, json=payload, timeout=60)
DraftSend ==
    /\ pc = "call_draft"
    /\ net' = <<Request("wordpress", DraftUrl(call.base_url, call.post_id), "draft")>>
    /\ pc' = "wp"
    /\ UNCHANGED <<caller, places, min_reviews, idx, items, result, session, call, hours>>

\* status 200 or 201: return r.json()
WpOk ==
    /\ pc = "wp"
    /\ \E code \in {200, 201} : result' = [Returned(<<>>) EXCEPT !.code = code]
    /\ net' = Answered(net, "ok", NoBody)
    /\ pc' = "idle"
    /\ UNCHANGED <<caller, places, min_reviews, idx, items, session, call, hours>>

\* another status: raise RuntimeError
WpFail ==
    /\ pc = "wp"
    /\ \E code \in {401, 500} : result' = [Raised("RuntimeError") EXCEPT !.code = code]
    /\ net' = Answered(net, "error", NoBody)
    /\ pc' = "idle"
    /\ UNCHANGED <<caller, places, min_reviews, idx, items, session, call, hours>>

\* ------------------------------------------------------------------ app.py
ApiKeys == {"", "k"}
BaseUrls == {<<>>, <<"https://wp.example">>, <<"https://wp.example", "/">>}
Users == {"", "u"}
Passwords == {"", "p"}

\* the button of tab1: without key st.error(...), else places_search_text(
\* google_api_key, default_query, city_key, max_results=max_results)
FetchClick ==
    /\ pc = "idle"
    /\ \E key \in ApiKeys, city \in CITY_PRESETS, mr \in MinReviews :
        /\ call' = [NoCall EXCEPT !.chain = "fetch", !.api_key = key, !.city_key = city]
        /\ min_reviews' = mr
        /\ IF key = ""
           THEN pc' = "idle" /\ result' = Raised("NoApiKey")
           ELSE pc' = "call_search" /\ result' = NoResult
    /\ caller' = "app"
    /\ places' = <<>>
    /\ idx' = 1
    /\ items' = <<>>
    /\ net' = <<>>
    /\ UNCHANGED <<session, hours>>

\* items = st.session_state.get("items", [])
SessionItems == IF session.held THEN session.items ELSE <<>>

\* all([wp_base_url, wp_user, wp_app_pass])
WpConfigured(c) == c.base_url # <<>> /\ c.user # "" /\ c.app_password # ""

\* the button of tab2: without items or without the WordPress settings
\* st.error(...), else create_or_update_draft_post(..., post_id=None)
PublishClick ==
    /\ pc = "idle"
    /\ \E base \in BaseUrls, user \in Users, pass \in Passwords :
        LET c == [NoCall EXCEPT !.chain = "publish", !.base_url = base,
                                !.user = user, !.app_password = pass]
        IN  /\ call' = c
            /\ IF SessionItems = <<>>
               THEN pc' = "idle" /\ result' = Raised("NoItems")
               ELSE IF ~WpConfigured(c)
               THEN pc' = "idle" /\ result' = Raised("NoWpConfig")
               ELSE pc' = "call_draft" /\ result' = NoResult
    /\ caller' = "app"
    /\ places' = <<>>
    /\ min_reviews' = 0
    /\ idx' = 1
    /\ items' = <<>>
    /\ net' = <<>>
    /\ UNCHANGED <<session, hours>>

Init ==
    /\ pc = "idle"
    /\ caller = "app"
    /\ places = <<>>
    /\ min_reviews = 0
    /\ idx = 1
    /\ items = <<>>
    /\ net = <<>>
    /\ result = NoResult
    /\ session = NoSession
    /\ call = NoCall
    /\ hours = NoHours

Next ==
    \/ FetchClick
    \/ DirectSearch
    \/ SearchSend
    \/ SearchOk
    \/ SearchFail
    \/ LoopSkip
    \/ DetailSend
    \/ DetailOk
    \/ DetailFail
    \/ EnrichReturn
    \/ PublishClick
    \/ DraftSend
    \/ WpOk
    \/ WpFail

Spec == Init /\ [][Next]_vars

\* create_or_update_draft_post called directly with any base URL and post_id
InitDraft ==
    /\ pc = "call_draft"
    /\ caller = "direct"
    /\ places = <<>>
    /\ min_reviews = 0
    /\ idx = 1
    /\ items = <<>>
    /\ net = <<>>
    /\ result = NoResult
    /\ session = NoSession
    /\ \E base \in BaseUrls, user \in Users, id \in {NoPostId} \cup {PostId(v) : v \in PostIdValues} :
        call = [NoCall EXCEPT !.chain = "draft", !.base_url = base, !.user = user,
                              !.app_password = "p", !.post_id = id]
    /\ hours = NoHours

NextDraft ==
    \/ DraftSend
    \/ WpOk
    \/ WpFail

SpecDraft == InitDraft /\ [][NextDraft]_vars

\* ------------------------------------------------------------------ claims on make_items_from_places

\* the value make_items_from_places returned, once it has
Output == result.items
HasReturned == pc = "idle" /\ result.kind = "ok"

\* the review count of an item, an absent one counted as 0
Reviews(it) == IF it.rating_count = None THEN 0 ELSE it.rating_count
Stars(it) == IF it.rating = None THEN 0 ELSE it.rating

\* C1: every item of the returned list has rating_count >= min_reviews, an absent
\* rating_count counted as 0.
C1_Filtered ==
    HasReturned => \A k \in 1..Len(Output) : Reviews(Output[k]) >= min_reviews

\* a run that built an item with too few reviews, another without rating_count, and
\* one with enough, and returned
C1_Witness ==
    /\ HasReturned
    /\ Output # <<>>
    /\ \E k \in 1..Len(items) : items[k].rating_count = 80 /\ min_reviews = 100
    /\ \E k \in 1..Len(items) : items[k].rating_count = None

\* C2: adjacent items of the returned list are in descending lexicographic order of
\* (rating, rating_count), absent values counted as 0.
C2_Ranked ==
    HasReturned =>
        \A k \in 1..(Len(Output) - 1) :
            \/ Stars(Output[k]) > Stars(Output[k + 1])
            \/ /\ Stars(Output[k]) = Stars(Output[k + 1])
               /\ Reviews(Output[k]) >= Reviews(Output[k + 1])

\* a run whose items arrived in ascending order: a tie on rating broken by the
\* review count, below a higher rating
C2_Witness ==
    /\ HasReturned
    /\ Len(Output) = 3
    /\ Stars(items[1]) = Stars(items[2]) /\ Reviews(items[1]) < Reviews(items[2])
    /\ Stars(items[2]) < Stars(items[3])
    /\ Output = <<items[3], items[2], items[1]>>

\* C3: a failed detail lookup is the last request of the call, the call ends with
\* the error and returns no list, whatever was built before.
C3_FailureAborts ==
    \A k \in 1..Len(net) :
        net[k].resp = "error" =>
            /\ k = Len(net)
            /\ pc = "idle"
            /\ result.kind = "RuntimeError"
            /\ result.items = <<>>

\* the second lookup of three failed: an item was built before, a reference follows
C3_Witness ==
    /\ Len(net) = 2
    /\ net[2].resp = "error"
    /\ Len(items) = 1
    /\ Len(places) = 3
    /\ idx = 2
    /\ TruthyStr(places[3].id)
    /\ pc = "idle"

\* the usable identifier of a reference: its id, or else its placeId
HasId(p) == (p.id # NoStr /\ p.id # "") \/ (p.placeId # NoStr /\ p.placeId # "")
IdOf(p) == IF p.id # NoStr /\ p.id # "" THEN p.id ELSE p.placeId

RECURSIVE UsableIds(_)
UsableIds(ps) ==
    IF ps = <<>> THEN <<>>
    ELSE (IF HasId(Head(ps)) THEN <<IdOf(Head(ps))>> ELSE <<>>) \o UsableIds(Tail(ps))

RequestedIds == [k \in 1..Len(net) |-> net[k].path[1]]

IsPrefix(a, b) == Len(a) <= Len(b) /\ a = SubSeq(b, 1, Len(a))

\* C5: the detail requests are the usable identifiers of the references, in input
\* order, one at a time; all of them once the call has returned. A reference
\* without usable identifier gets no request and no item, and the call goes on.
C5_Sequential ==
    /\ \A k \in 1..Len(net) : net[k].api = "places"
    /\ IsPrefix(RequestedIds, UsableIds(places))
    /\ HasReturned => RequestedIds = UsableIds(places)
    /\ Pending \subseteq {Len(net)}
    /\ \A k \in 1..Len(items) : HasId(places[items[k].src])
    /\ (pc = "idle" /\ result.kind # "ok") => (net # <<>> /\ net[Len(net)].resp = "error")

\* a call that returned after a reference without identifier between one that has
\* an id and one that has only a placeId
C5_Witness ==
    /\ HasReturned
    /\ Len(places) = 3
    /\ HasId(places[1]) /\ ~HasId(places[2]) /\ HasId(places[3])
    /\ places[1].placeId = "b"
    /\ RequestedIds = <<"a", "b">>

\* C8: two returned items of the same (rating, rating_count), absent counted as 0,
\* are in the order of their place references.
C8_Stable ==
    HasReturned =>
        \A j, k \in 1..Len(Output) :
            (/\ j < k
             /\ Stars(Output[j]) = Stars(Output[k])
             /\ Reviews(Output[j]) = Reviews(Output[k])) => Output[j].src < Output[k].src

\* two items of equal key, one with rating absent and one with rating 0, returned
\* in input order below an item that arrived last
C8_Witness ==
    /\ HasReturned
    /\ Len(Output) = 3
    /\ Output[2].rating = None /\ Output[3].rating = 0
    /\ Reviews(Output[2]) = Reviews(Output[3])
    /\ Output[1].src = 3

\* the references whose lookup qualifies: the k-th request is the lookup of the
\* k-th reference that has an identifier
Qualifying ==
    {k \in 1..Len(net) :
        (IF net[k].body.userRatingCount = None THEN 0 ELSE net[k].body.userRatingCount)
            >= min_reviews}

RECURSIVE UsablePositions(_, _)
UsablePositions(ps, i) ==
    IF i > Len(ps) THEN <<>>
    ELSE (IF HasId(ps[i]) THEN <<i>> ELSE <<>>) \o UsablePositions(ps, i + 1)

\* C10: when every lookup succeeded, the returned list has exactly one item per
\* reference that has an identifier and whose detail has enough reviews, built
\* from that detail; its length is the number of such references.
C10_Complete ==
    HasReturned =>
        LET pos == UsablePositions(places, 1)
        IN  /\ Len(Output) = Cardinality(Qualifying)
            /\ \A k \in Qualifying :
                   Cardinality({j \in 1..Len(Output) :
                       /\ Output[j].src = pos[k]
                       /\ Output[j].rating = net[k].body.rating
                       /\ Output[j].rating_count = net[k].body.userRatingCount}) = 1
            /\ \A j \in 1..Len(Output) : \E k \in Qualifying : Output[j].src = pos[k]

\* the same reference three times, two lookups qualifying with the same detail
C10_Witness ==
    /\ HasReturned
    /\ Len(places) = 3
    /\ places[1] = places[2] /\ places[2] = places[3]
    /\ Cardinality(Qualifying) = 2
    /\ Len(Output) = 2
    /\ Output[1].rating = Output[2].rating
    /\ Output[1].rating_count = Output[2].rating_count
    /\ min_reviews = 100

\* ------------------------------------------------------------------ claims on app.py

AllAnswered(log) == \A k \in 1..Len(log) : log[k].resp = "ok"

\* C4: the session's item list changes only in a step that ends a fetch whose
\* search and detail lookups all succeeded, and it is then the list that run
\* returned; a step that ends a run with an error leaves it as it was.
C4_SessionFrame ==
    [][/\ session' # session =>
            /\ call.chain = "fetch"
            /\ result'.kind = "ok"
            /\ session' = [held |-> TRUE, items |-> result'.items]
            /\ net' # <<>>
            /\ net'[1].api = "places:searchText"
            /\ AllAnswered(net')
       /\ (call.chain = "fetch" /\ result.kind # "ok" /\ result'.kind = "ok") =>
            session' = [held |-> TRUE, items |-> result'.items]
       /\ (result' # result /\ result'.kind \notin {"ok", "none"}) => session' = session
      ]_vars

\* a fetch whose search succeeded and whose detail lookup failed, while the
\* session held the list of an earlier fetch
C4_Witness ==
    /\ pc = "idle"
    /\ call.chain = "fetch"
    /\ result.kind = "RuntimeError"
    /\ Len(net) = 2
    /\ net[1].resp = "ok"
    /\ net[2].resp = "error"
    /\ session.held
    /\ session.items # <<>>

\* the city inputs that spell a key of the preset table in some letter case
SpellsPreset(k) == k \in {"riyadh", "RIYADH", "Dubai"}

WpSettingMissing == call.base_url = <<>> \/ call.user = "" \/ call.app_password = ""

\* C6 (as amended): places_search_text with a city key that matches no preset key
\* in any letter case raises without a request; a fetch with an empty API key and
\* a publish with an empty base URL, user or password issue no request.
C6_ConfigFirst ==
    /\ (call.chain = "search" /\ ~SpellsPreset(call.city_key)) =>
            (net = <<>> /\ (pc = "idle" => result.kind = "ValueError"))
    /\ (call.chain = "fetch" /\ call.api_key = "") => (net = <<>> /\ pc = "idle")
    /\ (call.chain = "publish" /\ WpSettingMissing) => (net = <<>> /\ pc = "idle")
    /\ result.kind \in {"ValueError", "NoApiKey", "NoWpConfig", "NoItems"} => net = <<>>

\* C6 as stated: every city key that is not a key of the table fails without a
\* request.
C6_Original ==
    /\ (call.chain = "search" /\ call.city_key \notin CITY_PRESETS) =>
            (net = <<>> /\ (pc = "idle" => result.kind = "ValueError"))
    /\ (call.chain = "fetch" /\ call.api_key = "") => (net = <<>> /\ pc = "idle")
    /\ (call.chain = "publish" /\ WpSettingMissing) => (net = <<>> /\ pc = "idle")
    /\ result.kind \in {"ValueError", "NoApiKey", "NoWpConfig", "NoItems"} => net = <<>>

\* places_search_text("paris") has raised, after a fetch had filled the session
C6_Witness ==
    /\ pc = "idle"
    /\ call.chain = "search"
    /\ call.city_key = "paris"
    /\ result.kind = "ValueError"
    /\ net = <<>>
    /\ session.held

\* ------------------------------------------------------------------ claims on create_or_update_draft_post

\* C7 as stated: the request goes to the posts collection when post_id is absent
\* and to the post's own path for every post_id given, with status "draft".
C7_Original ==
    \A k \in 1..Len(net) :
        /\ net[k].api = "wordpress"
        /\ net[k].status = "draft"
        /\ ~call.post_id.given => net[k].path = Endpoint(call.base_url)
        /\ call.post_id.given =>
               net[k].path = Endpoint(call.base_url) \o <<"/", ToString(call.post_id.value)>>

\* ------------------------------------------------------------------ claims on pick_today_hours

\* what normalize_time_string makes of the two lines
ExpectedTimes(line) ==
    IF line = OpenLine
    THEN <<"9", ":", "3", "0", " ", "sad", " ", "endash", " ", "5", " ", "mim">>
    ELSE <<"C", "l", "o", "s", "e", "d">>

ExpectedLine(day, line) == <<AR_WEEKDAYS[day], ":", " ">> \o ExpectedTimes(line)

\* the parts of C9 that hold as stated: the empty list, the length of the week
\* list, the seven distinct labels in order
HoursCommon ==
    LET wd == hours.weekday_desc
        n == Len(wd)
    IN  /\ wd = <<>> => (hours.today = <<"emdash">> /\ hours.full_week = <<>>)
        /\ Len(hours.full_week) = n
        /\ \A i \in 1..n : i <= 7 => hours.full_week[i] = ExpectedLine(i, wd[i])
        /\ n = 7 => \A i, j \in 1..7 : i # j => hours.full_week[i][1] # hours.full_week[j][1]
        /\ (n > 0 /\ hours.today_idx < n) =>
               hours.today = ExpectedLine(hours.today_idx + 1, wd[hours.today_idx + 1])

\* C9 (as amended): pick_today_hours returns for every list and weekday; on a list
\* shorter than the weekday's index today's line is the hours of entry 0 under
\* today's own label, and the entries past the seventh carry the label of index 0.
C9_Hours ==
    hours.done =>
        LET wd == hours.weekday_desc
            n == Len(wd)
        IN  /\ HoursCommon
            /\ (n > 0 /\ hours.today_idx >= n) =>
                   hours.today = ExpectedLine(hours.today_idx + 1, wd[1])
            /\ \A i \in 8..n : hours.full_week[i] = ExpectedLine(1, wd[i])

\* C9 as stated: on a list of fewer than 7 entries an index beyond its length
\* falls back to the label of index 0.
C9_Original ==
    hours.done =>
        LET wd == hours.weekday_desc
            n == Len(wd)
        IN  /\ HoursCommon
            /\ (n > 0 /\ n < 7 /\ hours.today_idx >= n) => hours.today[1] = AR_WEEKDAYS[1]

\* Thursday, a list of two different lines
C9_Witness ==
    /\ hours.done
    /\ hours.weekday_desc = <<OpenLine, ClosedLine>>
    /\ hours.today_idx = 3
    /\ hours.today = ExpectedLine(4, OpenLine)

====
